---- MODULE Spec2Model ----
(***************************************************************************)
(* Model of `helm repo add` (cmd/helm/repo_add.go): repoAddCmd.run and     *)
(* addRepository, run by concurrent invocations that share one            *)
(* repositories file, one file lock on it and one index cache directory.  *)
(***************************************************************************)
EXTENDS Integers, Sequences, FiniteSets, TLC

\* ------------------------------------------------------------------ bounds
\* Invocations started in one behaviour.
MaxCalls == 2

\* ------------------------------------------------------- program constants
\* context.WithTimeout(context.Background(), 30*time.Second)
LockTimeout == 30
\* fileLock.TryLockContext(lockCtx, time.Second)
RetryDelay == 1
\* Failed attempts of TryLockContext before the context's deadline passes.
MaxPolls == LockTimeout \div RetryDelay

\* ------------------------------------------------------------ input domains
\* Call sites that can run `helm repo add` side by side.
Procs == {1, 2}
NoProc == 0

Names == {"stable", "incubator"}

\* --username/--password and --cert-file/--key-file/--ca-file as given.
NoCreds ==
    [username |-> "", password |-> "", certFile |-> "", keyFile |-> "", caFile |-> ""]
SomeCreds ==
    [username |-> "alice", password |-> "pw", certFile |-> "c.pem",
     keyFile |-> "k.pem", caFile |-> "ca.pem"]

\* What a command line names as the repository: its url with the credentials
\* and TLS material that go with it.
Sources == {[url |-> "u1", cred |-> NoCreds], [url |-> "u2", cred |-> SomeCreds]}

\* --username without --password.
AskCreds == [SomeCreds EXCEPT !.password = ""]
PromptSources == {[url |-> "u2", cred |-> AskCreds]}

\* Outcomes of readPassword: an error, or the password typed.
Typed == "typed"
PromptResults == {"fail", Typed}

\* Line 82: a.username != "" && a.password == ""
NeedsPrompt(cred) == cred.username # "" /\ cred.password = ""

\* The fields of repoAddCmd that run passes to addRepository.
MkArgs(name, url, cred, noupdate) ==
    [name |-> name, url |-> url, username |-> cred.username,
     password |-> cred.password, certFile |-> cred.certFile,
     keyFile |-> cred.keyFile, caFile |-> cred.caFile, noUpdate |-> noupdate]
NoArgs == MkArgs("", "", NoCreds, FALSE)

\* home.CacheIndex(name): the cache path is a function of the name alone.
CacheIndex(name) == <<"cache", name, "index.yaml">>

\* EntryOf with the certificate and the key file exchanged.
EntryOfSwapped(a) ==
    [Name |-> a.name, Cache |-> CacheIndex(a.name), URL |-> a.url,
     Username |-> a.username, Password |-> a.password,
     CertFile |-> a.keyFile, KeyFile |-> a.certFile, CAFile |-> a.caFile]

\* c := repo.Entry{...}
EntryOf(a) ==
    [Name |-> a.name, Cache |-> CacheIndex(a.name), URL |-> a.url,
     Username |-> a.username, Password |-> a.password,
     CertFile |-> a.certFile, KeyFile |-> a.keyFile, CAFile |-> a.caFile]

\* ------------------------------------------------------------ registry store
\* A file on disk: absent, or present with a complete or a partly written
\* serialisation of a list of entries.
NoFile == [exists |-> FALSE, complete |-> TRUE, repos |-> <<>>]
MkFile(repos) == [exists |-> TRUE, complete |-> TRUE, repos |-> repos]
PartialFile == [exists |-> TRUE, complete |-> FALSE, repos |-> <<>>]

\* repo.LoadRepositoriesFile: an absent file is the empty registry; reading
\* an existing file can fail (ioerr), and a file that does not parse is an
\* error.
LoadFailsOnMissing(fl, ioerr) == ~fl.exists \/ ioerr \/ ~fl.complete
LoadFails(fl, ioerr) == fl.exists /\ (ioerr \/ ~fl.complete)
LoadRepositoriesFile(fl) == IF fl.exists THEN fl.repos ELSE <<>>

\* RepoFile.Has
Has(repos, name) == \E i \in 1..Len(repos) : repos[i].Name = name

\* RepoFile.Update: insert or replace by name, other entries stay in place.
Update(repos, e) ==
    IF Has(repos, e.Name)
    THEN [i \in 1..Len(repos) |-> IF repos[i].Name = e.Name THEN e ELSE repos[i]]
    ELSE Append(repos, e)

NamesIn(repos) == {repos[i].Name : i \in 1..Len(repos)}
EntriesFor(repos, name) == {i \in 1..Len(repos) : repos[i].Name = name}

\* ------------------------------------------------------------------- state
VARIABLES
    file,       \* the repositories file, home.RepositoryFile()
    lock,       \* holder of the flock on the repositories file, or NoProc
    cache,      \* cache[name]: url whose index is stored at CacheIndex(name)
    tmp,        \* tmp[p]: the temporary file of p's WriteFile
    pc,         \* pc[p]: position of invocation p
    args,       \* args[p]: arguments of invocation p
    f,          \* f[p]: the RepoFile p holds in memory
    locked,     \* locked[p]: the bool returned by TryLockContext
    waited,     \* waited[p]: failed lock attempts of the current TryLockContext
    err,        \* err[p]: what addRepository returned ("none" while running)
    fetchRes,   \* fetchRes[p]: outcome of DownloadIndexFile in this invocation
    tried,      \* tried[p]: the invocation has called TryLockContext
    wrote,      \* wrote[p]: the invocation has replaced the repositories file
    lastWriter, \* the invocation that replaced the repositories file last
    file0,      \* the repositories file before any invocation
    fileAtCall, \* fileAtCall[p]: the repositories file when p was started
    doneAtCall, \* doneAtCall[p]: invocations already returned when p started
    ncalls,     \* invocations started so far
    prompted    \* prompted[p]: run has called readPassword in this invocation

vars == <<file, lock, cache, tmp, pc, args, f, locked, waited, err, fetchRes,
          tried, wrote, lastWriter, file0, fileAtCall, doneAtCall, ncalls, prompted>>

history == <<fetchRes, tried, wrote, lastWriter, file0, fileAtCall, doneAtCall, ncalls, prompted>>

\* Registries a user can have before the first invocation of a behaviour.
InitialEntry == EntryOf(MkArgs("stable", "u1", NoCreds, FALSE))
InitialFiles == {NoFile, MkFile(<<>>), MkFile(<<InitialEntry>>)}

Init ==
    /\ file \in InitialFiles
    /\ file0 = file
    /\ lock = NoProc
    /\ cache = [n \in Names |->
                  IF Has(file.repos, n) THEN InitialEntry.URL ELSE "none"]
    /\ tmp = [p \in Procs |-> NoFile]
    /\ pc = [p \in Procs |-> "idle"]
    /\ args = [p \in Procs |-> NoArgs]
    /\ f = [p \in Procs |-> <<>>]
    /\ locked = [p \in Procs |-> FALSE]
    /\ waited = [p \in Procs |-> 0]
    /\ err = [p \in Procs |-> "none"]
    /\ fetchRes = [p \in Procs |-> "none"]
    /\ tried = [p \in Procs |-> FALSE]
    /\ wrote = [p \in Procs |-> FALSE]
    /\ lastWriter = NoProc
    /\ fileAtCall = [p \in Procs |-> NoFile]
    /\ doneAtCall = [p \in Procs |-> {}]
    /\ ncalls = 0
    /\ prompted = [p \in Procs |-> FALSE]

\* ------------------------------------------------------------------- helpers
\* Return without the deferred fileLock.Unlock().
ReturnNoUnlock(p, e) ==
    /\ pc' = [pc EXCEPT ![p] = "done"]
    /\ err' = [err EXCEPT ![p] = e]
    /\ lock' = lock
    /\ f' = [f EXCEPT ![p] = <<>>]
    /\ waited' = [waited EXCEPT ![p] = 0]

\* return e; runs the deferred fileLock.Unlock() when it was registered.
Return(p, e) ==
    /\ pc' = [pc EXCEPT ![p] = "done"]
    /\ err' = [err EXCEPT ![p] = e]
    /\ lock' = IF locked[p] /\ lock = p THEN NoProc ELSE lock
    /\ f' = [f EXCEPT ![p] = <<>>]
    /\ waited' = [waited EXCEPT ![p] = 0]

Returned == {p \in Procs : pc[p] = "done"}

\* ----------------------------------------------------------------- actions
\* Lines 82-92 with the condition of line 82 false: repoAddCmd.run calls
\* addRepository with the command's fields, without a prompt.
Call(p, name, url, cred, noupdate) ==
    /\ pc[p] \in {"idle", "done"}
    /\ ~NeedsPrompt(cred)
    /\ prompted' = [prompted EXCEPT ![p] = FALSE]
    /\ ncalls < MaxCalls
    /\ ncalls' = ncalls + 1
    /\ pc' = [pc EXCEPT ![p] = "load"]
    /\ args' = [args EXCEPT ![p] = MkArgs(name, url, cred, noupdate)]
    /\ f' = [f EXCEPT ![p] = <<>>]
    /\ locked' = [locked EXCEPT ![p] = FALSE]
    /\ waited' = [waited EXCEPT ![p] = 0]
    /\ err' = [err EXCEPT ![p] = "none"]
    /\ fetchRes' = [fetchRes EXCEPT ![p] = "none"]
    /\ tried' = [tried EXCEPT ![p] = FALSE]
    /\ wrote' = [wrote EXCEPT ![p] = FALSE]
    /\ tmp' = [tmp EXCEPT ![p] = NoFile]
    /\ fileAtCall' = [fileAtCall EXCEPT ![p] = file]
    /\ doneAtCall' = [doneAtCall EXCEPT ![p] = Returned \ {p}]
    /\ UNCHANGED <<file, lock, cache, lastWriter, file0>>

\* RunPrompt with the error of readPassword dropped: addRepository is called
\* with the empty password.
RunPromptErrorIgnored(p, name, url, cred, noupdate, typed) ==
    /\ pc[p] \in {"idle", "done"}
    /\ NeedsPrompt(cred)
    /\ typed \in PromptResults
    /\ ncalls < MaxCalls
    /\ ncalls' = ncalls + 1
    /\ prompted' = [prompted EXCEPT ![p] = TRUE]
    /\ pc' = [pc EXCEPT ![p] = "load"]
    /\ err' = [err EXCEPT ![p] = "none"]
    /\ args' = [args EXCEPT ![p] =
                  IF typed = "fail"
                  THEN MkArgs(name, url, cred, noupdate)
                  ELSE MkArgs(name, url, [cred EXCEPT !.password = typed], noupdate)]
    /\ f' = [f EXCEPT ![p] = <<>>]
    /\ locked' = [locked EXCEPT ![p] = FALSE]
    /\ waited' = [waited EXCEPT ![p] = 0]
    /\ fetchRes' = [fetchRes EXCEPT ![p] = "none"]
    /\ tried' = [tried EXCEPT ![p] = FALSE]
    /\ wrote' = [wrote EXCEPT ![p] = FALSE]
    /\ tmp' = [tmp EXCEPT ![p] = NoFile]
    /\ fileAtCall' = [fileAtCall EXCEPT ![p] = file]
    /\ doneAtCall' = [doneAtCall EXCEPT ![p] = Returned \ {p}]
    /\ UNCHANGED <<file, lock, cache, lastWriter, file0>>

\* Lines 82-92 with the condition of line 82 true: run calls readPassword;
\* on its error run returns it, otherwise the password typed replaces the
\* empty one and addRepository is called.
RunPrompt(p, name, url, cred, noupdate, typed) ==
    /\ pc[p] \in {"idle", "done"}
    /\ NeedsPrompt(cred)
    /\ typed \in PromptResults
    /\ ncalls < MaxCalls
    /\ ncalls' = ncalls + 1
    /\ prompted' = [prompted EXCEPT ![p] = TRUE]
    /\ IF typed = "fail"
       THEN /\ pc' = [pc EXCEPT ![p] = "done"]
            /\ err' = [err EXCEPT ![p] = "PromptError"]
            /\ args' = [args EXCEPT ![p] = MkArgs(name, url, cred, noupdate)]
       ELSE /\ pc' = [pc EXCEPT ![p] = "load"]
            /\ err' = [err EXCEPT ![p] = "none"]
            /\ args' = [args EXCEPT ![p] =
                          MkArgs(name, url, [cred EXCEPT !.password = typed], noupdate)]
    /\ f' = [f EXCEPT ![p] = <<>>]
    /\ locked' = [locked EXCEPT ![p] = FALSE]
    /\ waited' = [waited EXCEPT ![p] = 0]
    /\ fetchRes' = [fetchRes EXCEPT ![p] = "none"]
    /\ tried' = [tried EXCEPT ![p] = FALSE]
    /\ wrote' = [wrote EXCEPT ![p] = FALSE]
    /\ tmp' = [tmp EXCEPT ![p] = NoFile]
    /\ fileAtCall' = [fileAtCall EXCEPT ![p] = file]
    /\ doneAtCall' = [doneAtCall EXCEPT ![p] = Returned \ {p}]
    /\ UNCHANGED <<file, lock, cache, lastWriter, file0>>

\* PreCheck with the lock taken first, before the load and the fetch.
PreCheckLocking(p, ioerr) ==
    /\ pc[p] = "load"
    /\ lock = NoProc
    /\ ~LoadFails(file, ioerr)
    /\ ~(args[p].noUpdate /\ Has(LoadRepositoriesFile(file), args[p].name))
    /\ lock' = p
    /\ locked' = [locked EXCEPT ![p] = TRUE]
    /\ f' = [f EXCEPT ![p] = LoadRepositoriesFile(file)]
    /\ pc' = [pc EXCEPT ![p] = "fetch"]
    /\ UNCHANGED <<file, cache, tmp, args, err, waited, history>>

\* PreCheck without the --no-update test.
PreCheckNoDup(p, ioerr) ==
    /\ pc[p] = "load"
    /\ IF LoadFails(file, ioerr)
       THEN Return(p, "LoadError")
       ELSE /\ f' = [f EXCEPT ![p] = LoadRepositoriesFile(file)]
            /\ pc' = [pc EXCEPT ![p] = "fetch"]
            /\ UNCHANGED <<err, lock, waited>>
    /\ UNCHANGED <<file, cache, tmp, args, locked, history>>

\* Lines 108-115: the unlocked load and the --no-update check.
PreCheck(p, ioerr) ==
    /\ pc[p] = "load"
    /\ IF LoadFails(file, ioerr)
       THEN Return(p, "LoadError")
       ELSE IF args[p].noUpdate /\ Has(LoadRepositoriesFile(file), args[p].name)
       THEN Return(p, "DuplicateName")
       ELSE /\ f' = [f EXCEPT ![p] = LoadRepositoriesFile(file)]
            /\ pc' = [pc EXCEPT ![p] = "fetch"]
            /\ UNCHANGED <<err, lock, waited>>
    /\ UNCHANGED <<file, cache, tmp, args, locked, history>>

\* Outcomes of lines 129-136: NewChartRepository fails, DownloadIndexFile
\* fails, DownloadIndexFile stores the index in the cache.
FetchResults == {"norepo", "fail", "ok"}

\* Fetch with the error of DownloadIndexFile dropped: the function goes on to
\* the lock.
FetchErrorIgnored(p, res) ==
    /\ pc[p] = "fetch"
    /\ res \in FetchResults
    /\ CASE res = "norepo" ->
              /\ Return(p, "RepoError")
              /\ UNCHANGED <<cache, fetchRes>>
         [] res = "fail" ->
              /\ fetchRes' = [fetchRes EXCEPT ![p] = "fail"]
              /\ pc' = [pc EXCEPT ![p] = "lock"]
              /\ UNCHANGED <<cache, err, lock, f, waited>>
         [] res = "ok" ->
              /\ cache' = [cache EXCEPT ![args[p].name] = args[p].url]
              /\ fetchRes' = [fetchRes EXCEPT ![p] = "ok"]
              /\ pc' = [pc EXCEPT ![p] = "lock"]
              /\ UNCHANGED <<err, lock, f, waited>>
    /\ UNCHANGED <<file, tmp, args, locked, tried, wrote, lastWriter, file0,
                   fileAtCall, doneAtCall, ncalls, prompted>>

\* Lines 117-136: build the entry, fetch the index of its url into the cache.
Fetch(p, res) ==
    /\ pc[p] = "fetch"
    /\ res \in FetchResults
    /\ CASE res = "norepo" ->
              /\ Return(p, "RepoError")
              /\ UNCHANGED <<cache, fetchRes>>
         [] res = "fail" ->
              /\ Return(p, "FetchError")
              /\ fetchRes' = [fetchRes EXCEPT ![p] = "fail"]
              /\ UNCHANGED cache
         [] res = "ok" ->
              /\ cache' = [cache EXCEPT ![args[p].name] = args[p].url]
              /\ fetchRes' = [fetchRes EXCEPT ![p] = "ok"]
              /\ pc' = [pc EXCEPT ![p] = "lock"]
              /\ UNCHANGED <<err, lock, f, waited>>
    /\ UNCHANGED <<file, tmp, args, locked, tried, wrote, lastWriter, file0,
                   fileAtCall, doneAtCall, ncalls, prompted>>

\* Lines 139-145, TryLockContext returns (true, nil): the lock was free at
\* one of the attempts; the deferred Unlock is registered.
TryLockAcquire(p) ==
    /\ pc[p] = "lock"
    /\ lock = NoProc
    /\ lock' = p
    /\ locked' = [locked EXCEPT ![p] = TRUE]
    /\ tried' = [tried EXCEPT ![p] = TRUE]
    /\ waited' = [waited EXCEPT ![p] = 0]
    /\ pc' = [pc EXCEPT ![p] = "reload"]
    /\ UNCHANGED <<file, cache, tmp, args, f, err, fetchRes, wrote, lastWriter,
                   file0, fileAtCall, doneAtCall, ncalls, prompted>>

\* Inside TryLockContext: an attempt finds the lock held and the context's
\* deadline has not passed; the next attempt comes RetryDelay later.
TryLockBusy(p) ==
    /\ pc[p] = "lock"
    /\ lock # NoProc
    /\ waited[p] < MaxPolls
    /\ waited' = [waited EXCEPT ![p] = waited[p] + 1]
    /\ tried' = [tried EXCEPT ![p] = TRUE]
    /\ UNCHANGED <<file, lock, cache, tmp, pc, args, f, locked, err, fetchRes,
                   wrote, lastWriter, file0, fileAtCall, doneAtCall, ncalls, prompted>>

\* TryLockTimeout with the error of TryLockContext dropped: the function goes
\* on to the reload without the lock.
TryLockTimeoutIgnored(p) ==
    /\ pc[p] = "lock"
    /\ lock # NoProc
    /\ waited[p] = MaxPolls
    /\ tried' = [tried EXCEPT ![p] = TRUE]
    /\ waited' = [waited EXCEPT ![p] = 0]
    /\ pc' = [pc EXCEPT ![p] = "reload"]
    /\ UNCHANGED <<file, lock, cache, tmp, args, f, locked, err, fetchRes, wrote,
                   lastWriter, file0, fileAtCall, doneAtCall, ncalls, prompted>>

\* Lines 142-148, TryLockContext returns (false, ctx.Err()): the lock was held
\* at every attempt until the deadline.
TryLockTimeout(p) ==
    /\ pc[p] = "lock"
    /\ lock # NoProc
    /\ waited[p] = MaxPolls
    /\ tried' = [tried EXCEPT ![p] = TRUE]
    /\ Return(p, "DeadlineExceeded")
    /\ UNCHANGED <<file, cache, tmp, args, locked, fetchRes, wrote, lastWriter,
                   file0, fileAtCall, doneAtCall, ncalls, prompted>>

\* Lines 142-148, TryLockContext returns (false, err): the lock call itself
\* failed.
TryLockError(p) ==
    /\ pc[p] = "lock"
    /\ tried' = [tried EXCEPT ![p] = TRUE]
    /\ Return(p, "LockError")
    /\ UNCHANGED <<file, cache, tmp, args, locked, fetchRes, wrote, lastWriter,
                   file0, fileAtCall, doneAtCall, ncalls, prompted>>

\* Lines 142-152 when TryLockContext returns (false, nil): neither branch is
\* taken and the function goes on without the lock.
TryLockNotAcquired(p) ==
    /\ pc[p] = "lock"
    /\ tried' = [tried EXCEPT ![p] = TRUE]
    /\ waited' = [waited EXCEPT ![p] = 0]
    /\ pc' = [pc EXCEPT ![p] = "reload"]
    /\ UNCHANGED <<file, lock, cache, tmp, args, f, locked, err, fetchRes, wrote,
                   lastWriter, file0, fileAtCall, doneAtCall, ncalls, prompted>>

\* Reload without the second load: the entry is merged into the copy read by
\* the pre-check.
ReloadStale(p, ioerr) ==
    /\ pc[p] = "reload"
    /\ f' = [f EXCEPT ![p] = Update(f[p], EntryOf(args[p]))]
    /\ pc' = [pc EXCEPT ![p] = "write"]
    /\ UNCHANGED <<err, lock, waited>>
    /\ UNCHANGED <<file, cache, tmp, args, locked, history>>

\* Reload with the entry added at the end instead of f.Update(&c).
ReloadAppend(p, ioerr) ==
    /\ pc[p] = "reload"
    /\ IF LoadFails(file, ioerr)
       THEN Return(p, "LoadError")
       ELSE /\ f' = [f EXCEPT ![p] =
                       Append(LoadRepositoriesFile(file), EntryOf(args[p]))]
            /\ pc' = [pc EXCEPT ![p] = "write"]
            /\ UNCHANGED <<err, lock, waited>>
    /\ UNCHANGED <<file, cache, tmp, args, locked, history>>

\* Reload without f.Update(&c): the file is written back as it was read.
ReloadNoUpdate(p, ioerr) ==
    /\ pc[p] = "reload"
    /\ IF LoadFails(file, ioerr)
       THEN Return(p, "LoadError")
       ELSE /\ f' = [f EXCEPT ![p] = LoadRepositoriesFile(file)]
            /\ pc' = [pc EXCEPT ![p] = "write"]
            /\ UNCHANGED <<err, lock, waited>>
    /\ UNCHANGED <<file, cache, tmp, args, locked, history>>

\* Reload with the --no-update test repeated on the copy read under the lock.
ReloadRecheck(p, ioerr) ==
    /\ pc[p] = "reload"
    /\ IF LoadFails(file, ioerr)
       THEN Return(p, "LoadError")
       ELSE IF args[p].noUpdate /\ Has(LoadRepositoriesFile(file), args[p].name)
       THEN Return(p, "DuplicateName")
       ELSE /\ f' = [f EXCEPT ![p] =
                       Update(LoadRepositoriesFile(file), EntryOf(args[p]))]
            /\ pc' = [pc EXCEPT ![p] = "write"]
            /\ UNCHANGED <<err, lock, waited>>
    /\ UNCHANGED <<file, cache, tmp, args, locked, history>>

\* Lines 150-157: load the file again and merge the entry into what was read.
Reload(p, ioerr) ==
    /\ pc[p] = "reload"
    /\ IF LoadFails(file, ioerr)
       THEN Return(p, "LoadError")
       ELSE /\ f' = [f EXCEPT ![p] =
                       Update(LoadRepositoriesFile(file), EntryOf(args[p]))]
            /\ pc' = [pc EXCEPT ![p] = "write"]
            /\ UNCHANGED <<err, lock, waited>>
    /\ UNCHANGED <<file, cache, tmp, args, locked, history>>

\* WriteFile that truncates the repositories file and writes it in place.
WriteTruncate(p) ==
    /\ pc[p] = "write"
    /\ file' = PartialFile
    /\ pc' = [pc EXCEPT ![p] = "wtmp"]
    /\ UNCHANGED <<lock, cache, tmp, args, f, locked, waited, err, history>>

\* Line 159, f.WriteFile: the serialisation goes to a temporary file ...
WriteTemp(p) ==
    /\ pc[p] = "write"
    /\ tmp' = [tmp EXCEPT ![p] = PartialFile]
    /\ pc' = [pc EXCEPT ![p] = "wtmp"]
    /\ UNCHANGED <<file, lock, cache, args, f, locked, waited, err, history>>

\* ... which is written out in full ...
WriteTempDone(p) ==
    /\ pc[p] = "wtmp"
    /\ tmp' = [tmp EXCEPT ![p] = MkFile(f[p])]
    /\ pc' = [pc EXCEPT ![p] = "rename"]
    /\ UNCHANGED <<file, lock, cache, args, f, locked, waited, err, history>>

\* ... and renamed over the repositories file; addRepository returns nil.
Rename(p) ==
    /\ pc[p] = "rename"
    /\ file' = tmp[p]
    /\ tmp' = [tmp EXCEPT ![p] = NoFile]
    /\ wrote' = [wrote EXCEPT ![p] = TRUE]
    /\ lastWriter' = p
    /\ Return(p, "nil")
    /\ UNCHANGED <<cache, args, locked, fetchRes, tried, file0, fileAtCall,
                   doneAtCall, ncalls, prompted>>

WritePcs == {"write", "wtmp", "rename"}

\* WriteFail with the Write tried again instead of the error returned.
WriteFailRetry(p) ==
    /\ pc[p] \in WritePcs
    /\ tmp' = [tmp EXCEPT ![p] = NoFile]
    /\ pc' = [pc EXCEPT ![p] = "write"]
    /\ UNCHANGED <<file, lock, cache, args, f, locked, waited, err, history>>

\* WriteFail after a write in place: the error is returned and the file is
\* left partly written.
WriteFailTorn(p) ==
    /\ pc[p] \in WritePcs
    /\ file' = PartialFile
    /\ tmp' = [tmp EXCEPT ![p] = NoFile]
    /\ Return(p, "WriteError")
    /\ UNCHANGED <<cache, args, locked, history>>

\* WriteFail with the error of f.WriteFile dropped: addRepository returns nil.
WriteFailSwallowed(p) ==
    /\ pc[p] \in WritePcs
    /\ tmp' = [tmp EXCEPT ![p] = NoFile]
    /\ Return(p, "nil")
    /\ UNCHANGED <<file, cache, args, locked, history>>

\* Line 159, f.WriteFile returns an error: the temporary file is removed.
WriteFail(p) ==
    /\ pc[p] \in WritePcs
    /\ tmp' = [tmp EXCEPT ![p] = NoFile]
    /\ Return(p, "WriteError")
    /\ UNCHANGED <<file, cache, args, locked, history>>

\* The process is killed inside WriteFile: nothing after that point runs, the
\* operating system drops the process's flock, the temporary file stays.
Crash(p) ==
    /\ pc[p] \in WritePcs
    /\ Return(p, "Crashed")
    /\ UNCHANGED <<file, cache, tmp, args, locked, history>>

\* The error value the caller of run receives for each way addRepository or
\* run ends: the two messages addRepository formats itself (lines 114, 135),
\* and otherwise the collaborator's error handed on unchanged (lines 87, 110,
\* 131, 147, 154, 159); the error of a lock wait that ran out is the context's
\* ctx.Err().
ErrorText(e) ==
    CASE e = "nil" -> "<nil>"
      [] e = "DuplicateName" ->
            "repository name already exists, please specify a different name"
      [] e = "FetchError" ->
            "Looks like url is not a valid chart repository or cannot be reached"
      [] e = "DeadlineExceeded" -> "context deadline exceeded"
      [] e = "LockError" -> "error of the flock call"
      [] e = "LoadError" -> "error of LoadRepositoriesFile"
      [] e = "RepoError" -> "error of NewChartRepository"
      [] e = "WriteError" -> "error of WriteFile"
      [] e = "PromptError" -> "error of ReadPassword"
      [] OTHER -> "no value"

\* Lines 92-96: run prints "... has been added to your repositories" and
\* returns nil exactly when addRepository returned nil.
RunReportsAdded(p) == pc[p] = "done" /\ err[p] = "nil"

\* The steps of an invocation that has been started.
Progress(p) ==
    \/ \E ioerr \in BOOLEAN : PreCheck(p, ioerr)
    \/ \E res \in FetchResults : Fetch(p, res)
    \/ TryLockAcquire(p)
    \/ TryLockBusy(p)
    \/ TryLockTimeout(p)
    \/ TryLockError(p)
    \/ \E ioerr \in BOOLEAN : Reload(p, ioerr)
    \/ WriteTemp(p)
    \/ WriteTempDone(p)
    \/ Rename(p)
    \/ WriteFail(p)
    \/ Crash(p)

Step(p) ==
    \/ \E name \in Names, src \in Sources, noupdate \in BOOLEAN :
          Call(p, name, src.url, src.cred, noupdate)
    \/ Progress(p)

\* The program with the file lock as gofrs/flock implements it: TryLockContext
\* returns (true, nil), (false, ctx.Err()) or (false, err).
Next == \E p \in Procs : Step(p)

Spec == Init /\ [][Next]_vars

\* The program against any file lock of the same signature, which may also
\* return (false, nil).
NextAnyLock == \E p \in Procs : Step(p) \/ TryLockNotAcquired(p)

SpecAnyLock == Init /\ [][NextAnyLock]_vars

\* The program with every started invocation running on: an invocation is a
\* sequential flow of blocking calls, each of which returns.
SpecFair == Spec /\ \A p \in Procs : WF_vars(Progress(p))

\* The program with command lines that give --username without --password.
PromptStep(p) ==
    \E name \in Names, src \in PromptSources, noupdate \in BOOLEAN,
       typed \in PromptResults :
          RunPrompt(p, name, src.url, src.cred, noupdate, typed)

NextPrompt == \E p \in Procs : Step(p) \/ PromptStep(p)

SpecPrompt == Init /\ [][NextPrompt]_vars


\* ================================================================== claims
SuccessOf(p) == pc[p] = "done" /\ err[p] = "nil"

\* Failures of the environment of an invocation: the registry file cannot be
\* read or written, the repository cannot be fetched, the lock is not obtained,
\* the process is killed.
EnvFailures ==
    {"LoadError", "RepoError", "FetchError", "DeadlineExceeded", "LockError",
     "WriteError", "Crashed"}

\* Both call sites have run exactly one invocation each, and both are over.
TwoCallsOver == ncalls = 2 /\ \A p \in Procs : pc[p] = "done"

\* Neither of the two invocations started after the other had returned.
Overlapping == \A p \in Procs : doneAtCall[p] = {}

InitiallyEmpty == file0.repos = <<>>

\* e carries exactly the values invocation p was called with.
CarriesArgs(e, a) ==
    /\ e.Name = a.name
    /\ e.Cache = CacheIndex(a.name)
    /\ e.URL = a.url
    /\ e.Username = a.username
    /\ e.Password = a.password
    /\ e.CertFile = a.certFile
    /\ e.KeyFile = a.keyFile
    /\ e.CAFile = a.caFile

\* ---------------------------------------------------------------------- C1
\* C1: two invocations with distinct names against an initially empty
\* registry, whose loads, fetches, lock waits and writes do not fail, both
\* return nil, and the registry file then holds exactly two entries, one per
\* submitted name.
C1_DistinctNamesAllPresent ==
    (/\ TwoCallsOver
     /\ InitiallyEmpty
     /\ args[1].name # args[2].name
     /\ \A p \in Procs : err[p] \notin EnvFailures)
    => /\ \A p \in Procs : err[p] = "nil"
       /\ Len(file.repos) = 2
       /\ NamesIn(file.repos) = {args[p].name : p \in Procs}

C1_Witness ==
    /\ TwoCallsOver
    /\ Overlapping
    /\ InitiallyEmpty
    /\ args[1].name # args[2].name
    /\ \A p \in Procs : SuccessOf(p) /\ wrote[p]
    /\ Len(file.repos) = 2

\* ---------------------------------------------------------------------- C2
InCritical(p) == pc[p] \in {"reload", "write", "wtmp", "rename"}

\* C2: an invocation that is reloading, merging into or writing the registry
\* file holds the lock, whatever TryLockContext returned, so no two
\* invocations are in reload-merge-write at once.
C2_CriticalHoldsLock ==
    /\ \A p \in Procs : InCritical(p) => lock = p
    /\ \A p, q \in Procs : InCritical(p) /\ InCritical(q) => p = q

\* ---------------------------------------------------------------------- C3
\* C3: an invocation whose lock attempts all found the lock held until the
\* deadline returns the deadline error of the context (unless the lock call
\* itself fails), leaves the registry file as it is in that step, and has not
\* written the registry file and holds no lock when it has returned that error.
C3_TimeoutStep ==
    \A p \in Procs :
        (/\ pc[p] = "lock"
         /\ waited[p] = MaxPolls
         /\ lock # NoProc
         /\ pc'[p] # "lock")
        => /\ pc'[p] = "done"
           /\ err'[p] \in {"DeadlineExceeded", "LockError"}
           /\ file' = file
           /\ lock' = lock

C3_TimeoutNoWrite ==
    \A p \in Procs :
        err[p] = "DeadlineExceeded"
        => pc[p] = "done" /\ ~wrote[p] /\ ~locked[p] /\ lock # p

C3_LockTimeout == [](C3_TimeoutNoWrite) /\ [][C3_TimeoutStep]_vars

C3_Witness ==
    \E p \in Procs :
        /\ pc[p] = "done"
        /\ err[p] = "DeadlineExceeded"
        /\ file = file0
        /\ lock \in Procs \ {p}


\* ---------------------------------------------------------------------- C4
\* C4: an invocation whose DownloadIndexFile failed has returned the "not a
\* valid chart repository or cannot be reached" error, has never called
\* TryLockContext, holds no lock and has not written the registry file.
C4_FetchFailureStops ==
    \A p \in Procs :
        fetchRes[p] = "fail"
        => /\ pc[p] = "done"
           /\ err[p] = "FetchError"
           /\ ~tried[p]
           /\ ~locked[p]
           /\ lock # p
           /\ ~wrote[p]

\* A failed fetch against a registry that holds the name and another name.
C4_Witness ==
    \E p \in Procs :
        /\ fetchRes[p] = "fail"
        /\ pc[p] = "done"
        /\ Len(file.repos) = 2
        /\ Has(file.repos, args[p].name)

\* ---------------------------------------------------------------------- C5
\* C5: a pre-check that reads a registry containing the name, with noUpdate
\* set, ends the invocation with the duplicate-name error in that step and
\* leaves the registry file as it is; an invocation that returned the
\* duplicate-name error has not written the registry file.
C5_DuplicateStep ==
    \A p \in Procs :
        (/\ pc[p] = "load"
         /\ pc'[p] # "load"
         /\ args[p].noUpdate
         /\ Has(file.repos, args[p].name)
         /\ err'[p] # "LoadError")
        => /\ pc'[p] = "done"
           /\ err'[p] = "DuplicateName"
           /\ file' = file

C5_DuplicateNoWrite ==
    \A p \in Procs : err[p] = "DuplicateName" => pc[p] = "done" /\ ~wrote[p]

C5_DuplicateRejected == [](C5_DuplicateNoWrite) /\ [][C5_DuplicateStep]_vars

C5_Witness ==
    \E p \in Procs :
        /\ pc[p] = "done"
        /\ err[p] = "DuplicateName"
        /\ args[p].noUpdate
        /\ \A q \in Procs \ {p} : pc[q] = "idle"
        /\ file = file0
        /\ \E i \in 1..Len(file.repos) :
              /\ file.repos[i].Name = args[p].name
              /\ file.repos[i].URL # args[p].url

\* ---------------------------------------------------------------------- C6
\* Failures injected into an invocation from outside: the registry file cannot
\* be read or written, the lock call itself fails, the process is killed.
FaultErrors == {"LoadError", "LockError", "WriteError", "Crashed"}

\* Two invocations for the same name, neither with noUpdate, both over, both
\* with a successful fetch and without an injected failure.
SameNameCase ==
    /\ TwoCallsOver
    /\ args[1].name = args[2].name
    /\ \A p \in Procs :
          ~args[p].noUpdate /\ fetchRes[p] = "ok" /\ err[p] \notin FaultErrors

\* The registry file holds exactly one entry for the name, all of whose
\* fields are the values the invocation that wrote last was called with.
OneEntryOfLastWriter(name) ==
    /\ lastWriter \in Procs
    /\ Cardinality(EntriesFor(file.repos, name)) = 1
    /\ \A i \in EntriesFor(file.repos, name) :
          CarriesArgs(file.repos[i], args[lastWriter])

\* C6 as stated: whenever both fetches succeed, both invocations return nil
\* and the file holds one entry for the name, that of the last writer.
C6_AsStated ==
    SameNameCase
    => /\ \A p \in Procs : err[p] = "nil"
       /\ OneEntryOfLastWriter(args[1].name)

\* C6, amended: two invocations for the same name without noUpdate whose
\* fetches succeed and whose lock waits do not time out both return nil, and
\* the registry file then holds exactly one entry for the name, all of whose
\* fields are the values the invocation that wrote last was called with.
C6_SameNameLastWriterWins ==
    (SameNameCase /\ \A p \in Procs : err[p] # "DeadlineExceeded")
    => /\ \A p \in Procs : err[p] = "nil"
       /\ OneEntryOfLastWriter(args[1].name)

C6_Witness ==
    /\ SameNameCase
    /\ Overlapping
    /\ args[1].url # args[2].url
    /\ \A p \in Procs : SuccessOf(p) /\ wrote[p]
    /\ Cardinality(EntriesFor(file.repos, args[1].name)) = 1

\* ---------------------------------------------------------------------- C7
\* q was started after p had returned, for the same name, neither with
\* noUpdate, and both are over with nothing else run.
InSequence(p, q) ==
    /\ TwoCallsOver
    /\ p # q
    /\ p \in doneAtCall[q]
    /\ args[p].name = args[q].name
    /\ ~args[p].noUpdate
    /\ ~args[q].noUpdate

\* C7: after two invocations in sequence for the same name, the second of
\* which returned nil, the registry file holds exactly one entry for the
\* name, carrying the second call's values; when the first returned nil too
\* and the arguments are identical, the registry file is what it was after
\* the first call.
C7_SecondCallWins ==
    \A p, q \in Procs :
        (InSequence(p, q) /\ err[q] = "nil")
        => /\ Cardinality(EntriesFor(file.repos, args[q].name)) = 1
           /\ \A i \in EntriesFor(file.repos, args[q].name) :
                 CarriesArgs(file.repos[i], args[q])
           /\ (err[p] = "nil" /\ args[p] = args[q]) => file = fileAtCall[q]

\* Both shapes of the case: a second call with other values, and a second
\* call with identical arguments.
C7_Witness ==
    \E p, q \in Procs :
        /\ InSequence(p, q)
        /\ SuccessOf(p)
        /\ SuccessOf(q)
        /\ args[p] = args[q]
        /\ Len(file.repos) = 2

C7_WitnessOtherValues ==
    \E p, q \in Procs :
        /\ InSequence(p, q)
        /\ SuccessOf(p)
        /\ SuccessOf(q)
        /\ args[p].url # args[q].url


\* ---------------------------------------------------------------------- C8
\* With no registry file, the pre-check load yields the empty registry and no
\* error.
C8_FirstLoadStep ==
    \A p \in Procs :
        (~file.exists /\ pc[p] = "load" /\ pc'[p] # "load")
        => pc'[p] = "fetch" /\ err'[p] = "none" /\ f'[p] = <<>>

\* With no registry file, the locked reload yields the empty registry and no
\* error: the merged registry is the new entry alone.
C8_ReloadStep ==
    \A p \in Procs :
        (~file.exists /\ pc[p] = "reload" /\ pc'[p] # "reload")
        => /\ pc'[p] = "write"
           /\ err'[p] = "none"
           /\ Len(f'[p]) = 1
           /\ CarriesArgs(f'[p][1], args[p])

\* A single invocation against a home without registry file never returns a
\* load or duplicate-name error, and when it returns nil the registry file
\* exists and holds exactly the new entry.
C8_FirstRunResult ==
    \A p \in Procs :
        (file0 = NoFile /\ ncalls = 1 /\ pc[p] = "done")
        => /\ err[p] \notin {"LoadError", "DuplicateName"}
           /\ err[p] = "nil"
              => /\ file.exists
                 /\ file.complete
                 /\ Len(file.repos) = 1
                 /\ CarriesArgs(file.repos[1], args[p])

\* C8: when no registry file exists both loads of addRepository yield the
\* empty registry rather than an error, and a call whose fetch, lock and write
\* succeed returns nil and creates a registry file with exactly the new entry.
C8_FirstRun ==
    [](C8_FirstRunResult) /\ [][C8_FirstLoadStep /\ C8_ReloadStep]_vars

C8_Witness ==
    \E p \in Procs :
        /\ file0 = NoFile
        /\ ncalls = 1
        /\ SuccessOf(p)
        /\ args[p].noUpdate
        /\ file = MkFile(<<EntryOf(args[p])>>)

\* ---------------------------------------------------------------------- C9
\* Every change of the registry file replaces it in one step by the complete
\* serialisation of the registry the writer merged.
C9_WholeFileStep ==
    \/ file' = file
    \/ \E p \in Procs : pc[p] = "rename" /\ file' = MkFile(f[p])

\* C9: the registry file a reader sees is always a complete registry, the one
\* before a Write or the one the Write produces, also when an invocation is
\* killed at any point of its Write.
C9_AtomicCommit == [](file.complete) /\ [][C9_WholeFileStep]_vars

\* An invocation killed after its temporary file was created and before the
\* rename, with the registry file as it was.
C9_Witness ==
    \E p \in Procs :
        /\ pc[p] = "done"
        /\ err[p] = "Crashed"
        /\ tmp[p] = PartialFile
        /\ file = file0
        /\ file.exists

\* --------------------------------------------------------------------- C10
\* C10: the duplicate-name error comes from the unlocked pre-check alone: an
\* invocation that returned it never called TryLockContext, so noUpdate is not
\* tested again under the lock; the race the claim describes is the state of
\* C10_Witness.
C10_NoRecheckUnderLock ==
    \A p \in Procs : err[p] = "DuplicateName" => ~tried[p] /\ ~locked[p]

\* Two overlapping noUpdate invocations for one name that was not in the
\* registry: both passed the pre-check, both returned nil, and the entry of the
\* second writer has replaced that of the first.
C10_Witness ==
    \E p, q \in Procs :
        /\ p # q
        /\ TwoCallsOver
        /\ Overlapping
        /\ args[p].name = args[q].name
        /\ ~Has(file0.repos, args[p].name)
        /\ args[p].noUpdate /\ args[q].noUpdate
        /\ args[p].url # args[q].url
        /\ SuccessOf(p) /\ SuccessOf(q)
        /\ wrote[p] /\ wrote[q]
        /\ lastWriter = q
        /\ \A i \in EntriesFor(file.repos, args[p].name) :
              CarriesArgs(file.repos[i], args[q])
        /\ Cardinality(EntriesFor(file.repos, args[p].name)) = 1


\* --------------------------------------------------------------------- C11
\* An invocation that has returned holds no lock.
C11_ReturnedHoldsNoLock == \A p \in Procs : pc[p] = "done" => lock # p

\* C11: an invocation that has acquired the lock releases it: whenever it
\* holds the lock it later does not, and once it has returned, after a
\* successful Write, a failed Write or a failed reload, it holds no lock.
C11_LockReleased ==
    /\ [](C11_ReturnedHoldsNoLock)
    /\ \A p \in Procs : (lock = p) ~> (lock # p)

\* An invocation acquired the lock, its Write failed, and the lock is free
\* while the other invocation waits for it.
C11_Witness ==
    \E p, q \in Procs :
        /\ pc[p] = "done"
        /\ locked[p]
        /\ err[p] = "WriteError"
        /\ lock = NoProc
        /\ pc[q] = "lock"
        /\ waited[q] > 0

\* The same after a failed reload.
C11_WitnessReloadFailed ==
    \E p \in Procs :
        pc[p] = "done" /\ locked[p] /\ err[p] = "LoadError" /\ lock = NoProc


\* --------------------------------------------------------------------- C12
BeforeLock(p) == pc[p] \in {"load", "fetch"}

\* C12: an invocation in its pre-check or its index fetch holds no lock and
\* has not called TryLockContext, so the lock is free for any other
\* invocation however long the fetch takes.
C12_NoLockAcrossFetch ==
    \A p \in Procs :
        BeforeLock(p) => /\ lock # p
                         /\ ~locked[p]
                         /\ ~tried[p]
                         /\ \A q \in Procs \ {p} :
                               pc[q] = "lock" /\ lock = NoProc
                               => ENABLED TryLockAcquire(q)

\* While p is still fetching, q has acquired the lock and committed since p
\* was started.
C12_Witness ==
    \E p, q \in Procs :
        /\ p # q
        /\ pc[p] = "fetch"
        /\ ncalls = 2
        /\ doneAtCall[q] = {}
        /\ fileAtCall[p] # file
        /\ SuccessOf(q)
        /\ wrote[q]
        /\ lastWriter = q


\* --------------------------------------------------------------------- C13
\* The entries of a registry whose name is not `name`, in their order.
Others(repos, name) ==
    LET keep(e) == e.Name # name IN SelectSeq(repos, keep)

\* The write of an invocation keeps every entry of another name that is in
\* the file, with its fields and in its order, and stores the invocation's
\* entry.
C13_WriteStep ==
    \A p \in Procs :
        (pc[p] = "rename" /\ pc'[p] = "done" /\ err'[p] = "nil")
        => /\ Others(file'.repos, args[p].name) = Others(file.repos, args[p].name)
           /\ \E i \in 1..Len(file'.repos) : file'.repos[i] = EntryOf(args[p])

\* From the acquisition of the lock to the write the file is the one that was
\* reloaded: nobody else changes it while the lock is held.
C13_HeldStep ==
    \A p \in Procs : (lock = p /\ file' # file) => pc[p] = "rename"

\* C13: the registry an invocation writes is computed from the file as it is
\* under the lock, not from the pre-check copy: entries of other names that are
\* in the file when the lock is acquired, also those committed by other
\* invocations since the pre-check, are in the file after the write with the
\* same fields and in the same relative order.
C13_ReloadedUnderLock == [][C13_WriteStep /\ C13_HeldStep]_vars

\* q committed an entry of another name after p was started; p wrote last, and
\* q's entry is still there, before p's.
C13_Witness ==
    \E p, q \in Procs :
        /\ p # q
        /\ TwoCallsOver
        /\ SuccessOf(p) /\ SuccessOf(q)
        /\ lastWriter = p
        /\ doneAtCall[p] = {}
        /\ args[p].name # args[q].name
        /\ ~Has(fileAtCall[p].repos, args[q].name)
        /\ Len(file.repos) = 2
        /\ CarriesArgs(file.repos[1], args[q])
        /\ CarriesArgs(file.repos[2], args[p])


\* --------------------------------------------------------------------- C14
UniqueNames(repos) ==
    \A i, j \in 1..Len(repos) : repos[i].Name = repos[j].Name => i = j

\* C14: the registry file, which starts with unique names, never holds two
\* entries of the same name, whatever invocations have run and however they
\* interleaved.
C14_UniqueNames == UniqueNames(file.repos)

\* Two invocations for a name that was already registered have both
\* replaced its entry.
C14_Witness ==
    /\ TwoCallsOver
    /\ Overlapping
    /\ Has(file0.repos, args[1].name)
    /\ args[1].name = args[2].name
    /\ \A p \in Procs : SuccessOf(p) /\ wrote[p]
    /\ Len(file.repos) = 1

\* A second name is registered beside the one that was there.
C14_WitnessTwoNames ==
    /\ TwoCallsOver
    /\ Has(file0.repos, args[1].name)
    /\ ~Has(file0.repos, args[2].name)
    /\ \A p \in Procs : SuccessOf(p) /\ wrote[p]
    /\ Len(file.repos) = 2


\* --------------------------------------------------------------------- C15
\* addRepository returns nil in the step that completes the Write, and the
\* file that step leaves is complete and holds the invocation's entry.
C15_SuccessStep ==
    \A p \in Procs :
        (err[p] # "nil" /\ err'[p] = "nil")
        => /\ pc[p] = "rename"
           /\ wrote'[p]
           /\ file'.exists /\ file'.complete
           /\ \E i \in 1..Len(file'.repos) : CarriesArgs(file'.repos[i], args[p])

\* C15: run reports success only for an invocation whose Write has completed
\* without error, and the file that Write produced held the invocation's entry.
C15_SuccessAfterWrite ==
    /\ [](\A p \in Procs : RunReportsAdded(p) => wrote[p] /\ lastWriter # NoProc)
    /\ [][C15_SuccessStep]_vars

\* Success has been reported, and another invocation has since replaced the
\* entry: the entry was in the file when the Write completed, not for ever.
C15_Witness ==
    \E p, q \in Procs :
        /\ p # q
        /\ TwoCallsOver
        /\ RunReportsAdded(p)
        /\ RunReportsAdded(q)
        /\ lastWriter = q
        /\ args[p].name = args[q].name
        /\ args[p].url # args[q].url
        /\ ~\E i \in 1..Len(file.repos) : CarriesArgs(file.repos[i], args[p])


\* --------------------------------------------------------------------- C16
\* The ways an invocation ends without having committed.
FailureErrors ==
    {"DuplicateName", "FetchError", "DeadlineExceeded", "LockError",
     "LoadError", "WriteError"}

\* C16: every invocation that ended without committing returned a non-nil
\* error, the errors of different failure states differ, and the error of a
\* lock wait that ran out is a "registry busy" error.
C16_DistinctErrors ==
    \A p \in Procs :
        (pc[p] = "done" /\ err[p] \in FailureErrors)
        => /\ ErrorText(err[p]) # ErrorText("nil")
           /\ \A e \in FailureErrors \ {err[p]} : ErrorText(e) # ErrorText(err[p])
           /\ err[p] = "DeadlineExceeded" => ErrorText(err[p]) = "registry busy"


\* --------------------------------------------------------------------- C17
\* The step in which a locked invocation returns the error of the reload or
\* of the Write leaves the registry file as it is and releases the lock.
C17_FailureStep ==
    \A p \in Procs :
        (InCritical(p) /\ err'[p] \in {"LoadError", "WriteError"})
        => /\ pc'[p] = "done"
           /\ file' = file
           /\ lock' # p

\* An invocation holding the lock changes the file by its rename alone, and
\* nobody else changes it meanwhile.
C17_NoPartialStep ==
    \A p \in Procs :
        (lock = p /\ file' # file) => pc[p] = "rename" /\ err'[p] = "nil"

\* C17: an invocation whose locked reload or whose Write fails returns that
\* error, and the registry file is then exactly what it was when the invocation
\* acquired the lock: the invocation has changed nothing of it.
C17_FailureLeavesFile ==
    /\ [](\A p \in Procs :
            (locked[p] /\ err[p] \in {"LoadError", "WriteError"})
            => pc[p] = "done" /\ ~wrote[p] /\ file.complete)
    /\ [][C17_FailureStep /\ C17_NoPartialStep]_vars

\* A Write failed after the temporary file had been written in full; the file
\* holds what it held before, without the invocation's entry.
C17_Witness ==
    \E p \in Procs :
        /\ pc[p] = "done"
        /\ locked[p]
        /\ err[p] = "WriteError"
        /\ ncalls = 1
        /\ file = file0
        /\ file.exists
        /\ ~Has(file.repos, args[p].name)

\* The same for a failed locked reload.
C17_WitnessReload ==
    \E p \in Procs :
        /\ pc[p] = "done"
        /\ locked[p]
        /\ err[p] = "LoadError"
        /\ ncalls = 1
        /\ file = file0


\* --------------------------------------------------------------------- C18
Running(p) == pc[p] \notin {"idle", "done"}

\* The order of the positions of addRepository.
Rank(pos) ==
    CASE pos = "idle" -> 0
      [] pos = "load" -> 1
      [] pos = "fetch" -> 2
      [] pos = "lock" -> 3
      [] pos = "reload" -> 4
      [] pos = "write" -> 5
      [] pos = "wtmp" -> 6
      [] pos = "rename" -> 7
      [] pos = "done" -> 8

TerminalErrors ==
    {"nil", "DuplicateName", "RepoError", "FetchError", "DeadlineExceeded",
     "LockError", "LoadError", "WriteError", "Crashed"}

\* A running invocation only moves forward; the one step that leaves it where
\* it is is a failed lock attempt, which counts towards the deadline.
C18_ForwardStep ==
    \A p \in Procs :
        Running(p)
        => \/ Rank(pc'[p]) > Rank(pc[p])
           \/ /\ pc'[p] = pc[p]
              /\ \/ waited'[p] = waited[p] /\ f'[p] = f[p] /\ err'[p] = err[p]
                 \/ pc[p] = "lock" /\ waited'[p] = waited[p] + 1

\* A returned invocation has one result, which stays until run is called again.
C18_OneResultStep ==
    \A p \in Procs :
        (pc[p] = "done" /\ (err'[p] # err[p] \/ pc'[p] # "done"))
        => ncalls' = ncalls + 1 /\ pc'[p] = "load" /\ err'[p] = "none"

\* A running invocation can always take a step, whatever the others do, and
\* its lock wait is within the bound.
C18_NeverStuck ==
    \A p \in Procs :
        /\ Running(p) => ENABLED Progress(p)
        /\ Running(p) <=> err[p] = "none" /\ pc[p] # "idle"
        /\ pc[p] = "done" => err[p] \in TerminalErrors
        /\ waited[p] \in 0..MaxPolls

\* C18: every started invocation reaches exactly one terminal state: it never
\* goes back or repeats a step other than the lock attempt, the lock wait is
\* bounded, it is never blocked for good by other invocations, and (its steps
\* being taken) it eventually returns.
C18_Terminates ==
    /\ [](C18_NeverStuck)
    /\ [][C18_ForwardStep /\ C18_OneResultStep]_vars
    /\ \A p \in Procs : Running(p) ~> (pc[p] = "done")

\* Both invocations have returned, one of them after waiting for the lock
\* until the deadline behind the other.
C18_Witness ==
    \E p, q \in Procs :
        /\ p # q
        /\ TwoCallsOver
        /\ Overlapping
        /\ err[p] = "DeadlineExceeded"
        /\ SuccessOf(q)


\* --------------------------------------------------------------------- C19
\* readPassword was called exactly for the command lines with a username and
\* no password. (The password typed differs from every password given on a
\* command line, so a password of Typed shows a prompt that succeeded.)
C19_PromptedIff ==
    \A p \in Procs :
        pc[p] # "idle"
        => /\ prompted[p]
              => /\ args[p].username # ""
                 /\ \/ err[p] = "PromptError" /\ args[p].password = ""
                    \/ err[p] # "PromptError" /\ args[p].password = Typed
           /\ ~prompted[p]
              => /\ ~(args[p].username # "" /\ args[p].password = "")
                 /\ args[p].password # Typed
                 /\ err[p] # "PromptError"

\* After a failed prompt run has returned and addRepository has not run:
\* nothing was loaded, fetched, locked or written.
C19_FailedPromptStops ==
    \A p \in Procs :
        err[p] = "PromptError"
        => /\ pc[p] = "done"
           /\ f[p] = <<>>
           /\ fetchRes[p] = "none"
           /\ ~tried[p] /\ ~locked[p] /\ lock # p
           /\ ~wrote[p]
           /\ tmp[p] = NoFile

\* The entry an invocation wrote after a prompt carries the password typed.
C19_EntryHasTyped ==
    \A p \in Procs :
        (prompted[p] /\ SuccessOf(p) /\ lastWriter = p)
        => \E i \in 1..Len(file.repos) :
              /\ CarriesArgs(file.repos[i], args[p])
              /\ file.repos[i].Password = Typed

\* The step in which run returns the error of readPassword touches neither the
\* registry file nor the lock nor the cache.
C19_FailedPromptStep ==
    \A p \in Procs :
        (err'[p] = "PromptError" /\ (err[p] # "PromptError" \/ ncalls' # ncalls))
        => file' = file /\ lock' = lock /\ cache' = cache

\* C19: run calls readPassword if and only if the username is non-empty and
\* the password empty; when the prompt fails run returns that error before
\* addRepository is called, so nothing is loaded, fetched, locked or written;
\* when it succeeds the entry is built with the password typed.
C19_Prompt ==
    /\ [](C19_PromptedIff /\ C19_FailedPromptStops /\ C19_EntryHasTyped)
    /\ [][C19_FailedPromptStep]_vars

\* A prompt failed against an empty home: nothing has been created.
C19_Witness ==
    \E p \in Procs :
        /\ prompted[p]
        /\ err[p] = "PromptError"
        /\ ncalls = 1
        /\ file = NoFile
        /\ cache = [n \in Names |-> "none"]

\* A prompt succeeded and the entry written carries the password typed; the
\* other invocation, with username and password given, was not prompted.
C19_WitnessTyped ==
    \E p, q \in Procs :
        /\ prompted[p] /\ SuccessOf(p) /\ lastWriter = p
        /\ \E i \in 1..Len(file.repos) : file.repos[i].Password = Typed
        /\ ~prompted[q] /\ SuccessOf(q) /\ args[q].username # ""


\* --------------------------------------------------------------------- C20
\* C20: whenever no invocation is in progress, the index cached for each name
\* of the registry is the one fetched from the url of the registry's entry of
\* that name.
C20_CacheMatchesRegistry ==
    (\A p \in Procs : ~Running(p))
    => \A i \in 1..Len(file.repos) :
          cache[file.repos[i].Name] = file.repos[i].URL

====
